---- MODULE Spec2Model ----
(***************************************************************************)
(* Model of ckanext/ottawa/gis_import.py: the GIS -> CKAN import job.      *)
(*                                                                         *)
(* The job is a sequential script.  Its state is the module-level globals  *)
(* (mapping, single_dataset, force, debug), the locals of main_job, and    *)
(* the three things it talks to: the CKAN repository (package_show,        *)
(* resource_create, resource_update), the GIS file server (HEAD and GET)   *)
(* and the local temp_data staging directory.  A Python exception that no  *)
(* handler catches ends the process: pc = "crashed".                       *)
(***************************************************************************)
EXTENDS Integers, Sequences, FiniteSets, TLC

VARIABLES
    mapping,        \* yaml mapping: dataset -> sequence of format keys (iteration order)
    ckanPkg,        \* CKAN: dataset -> whether it is found, and the list of its resources
    srcHead,        \* GIS server: url -> answer to HEAD (status, last-modified header)
    staged,         \* temp_data/<name>_shp: dataset -> set of staged sub-file formats
    clock,          \* datetime.now()
    single_dataset, \* arguments['DATASET'] (None when not given)
    force,          \* arguments['--force']
    debug,          \* arguments['--dry-run']
    pc,             \* position of the script
    todo,           \* datasets the top-level driver still has to run (current first)
    fmts,           \* formats main_job still has to iterate (current first)
    package,        \* main_job: the package_show result
    resource,       \* main_job: the resource of the current format
    stale,          \* the last out_of_date evaluation
    calls,          \* remote calls made by the current run, in order
    log,            \* log file lines written by the current run, in order
    run,            \* the invocation of the script: "none", "first" or "second"
    repeat,         \* whether the script is invoked a second time
    prev,           \* summary of the previous invocation (valid = FALSE before the first)
    modified        \* a source file changed since the previous invocation ended

vars == <<mapping, ckanPkg, srcHead, staged, clock, single_dataset, force, debug,
          pc, todo, fmts, package, resource, stale, calls, log, run, repeat, prev,
          modified>>

\* ------------------------------------------------------------------ bounds
MaxTime == 2
StartTime == 1

\* ------------------------------------------------------------- value sets
None == "None"
Times == 0..MaxTime

DatasetOrder == <<"ds1", "ds2">>
Datasets == {"ds1", "ds2"}
\* a dataset name that may be asked for with -d but is no key of the mapping
UnmappedDataset == "dsX"

\* the sub-files of the shapefile entry of a mapping: mapping[d]['shp']
ShpParts == <<"shp", "dbf">>

\* str.lower() on the format names that occur
Lower(s) ==
    CASE s = "CSV" -> "csv"
      [] s = "KML" -> "kml"
      [] s = "SHP" -> "shp"
      [] OTHER -> s

\* A timestamp string.  NoStamp stands for Python's None / a missing key.
NoStamp == [iso |-> 0, tz |-> "None"]
\* datetime.isoformat() / strftime("%Y-%m-%dT%H:%M:%S.%f"): a naive ISO string
IsoFormat(t) == [iso |-> t, tz |-> "naive"]
\* the Last-Modified header of an HTTP answer: an RFC 1123 date in GMT
HttpDate(t) == [iso |-> t, tz |-> "GMT"]
\* dateutil parse(s).replace(tzinfo=None): the wall-clock value, offset dropped
ParseNaive(s) == s.iso

SeqToSet(s) == {s[i] : i \in 1..Len(s)}

\* an answer to HEAD that carries a last-modified date
HasDate(h) == h.status # 404 /\ h.last_modified # NoStamp

NoUrl == <<>>
NoResource ==
    [id |-> 0, package_id |-> None, name |-> <<>>, format |-> None,
     url |-> None, last_modified |-> NoStamp, created |-> NoStamp]
NoPackage == [id |-> None, name |-> None, resources |-> <<>>]

\* ------------------------------------------------------------ get_import_url
\* [ok |-> TRUE, url |-> u], or ok = FALSE for the KeyError of a missing key.
\* The url stands for base_import_url + the mapped path of (dataset, key, part).
get_import_url(res, ds, entry) ==
    LET key == Lower(res.format) IN
    IF key \notin SeqToSet(entry) THEN [ok |-> FALSE, url |-> NoUrl]
    ELSE IF key = "shp"
         THEN IF "shp" \in SeqToSet(ShpParts)
              THEN [ok |-> TRUE, url |-> <<ds, "shp", "shp">>]
              ELSE [ok |-> FALSE, url |-> NoUrl]
         ELSE [ok |-> TRUE, url |-> <<ds, key, key>>]

\* ------------------------------------------------------ get_import_file_date
\* the probe without the status check of lines 113-115
get_import_file_date_no_404(head, url) ==
    IF head.last_modified = NoStamp
    THEN [raised |-> TRUE, none |-> TRUE, date |-> 0,
          log |-> <<[level |-> "error", msg |-> "Could not determine last modified date",
                     arg |-> url]>>]
    ELSE [raised |-> FALSE, none |-> FALSE, date |-> ParseNaive(head.last_modified),
          log |-> <<>>]

\* [raised, none, date, log]: 404 -> warning and None; no last-modified header
\* -> the error is logged and `return date_modified` then reads a local that
\* was never bound (UnboundLocalError: raised = TRUE); otherwise the parsed
\* naive date.
get_import_file_date(head, url) ==
    IF head.status = 404
    THEN [raised |-> FALSE, none |-> TRUE, date |-> 0,
          log |-> <<[level |-> "warning", msg |-> "Resource is missing", arg |-> url]>>]
    ELSE IF head.last_modified = NoStamp
    THEN [raised |-> TRUE, none |-> TRUE, date |-> 0,
          log |-> <<[level |-> "error", msg |-> "Could not determine last modified date",
                     arg |-> url]>>]
    ELSE [raised |-> FALSE, none |-> FALSE, date |-> ParseNaive(head.last_modified),
          log |-> <<>>]

\* ------------------------------------------------------------- out_of_date
\* the reference date taken from created before last_modified
resource_modified_created_first(res, now) ==
    IF res.created # NoStamp THEN ParseNaive(res.created)
    ELSE IF res.last_modified # NoStamp THEN ParseNaive(res.last_modified)
    ELSE now

\* lines 131-136: the resource's reference date
resource_modified(res, now) ==
    IF res.last_modified # NoStamp THEN ParseNaive(res.last_modified)
    ELSE IF res.created # NoStamp THEN ParseNaive(res.created)
    ELSE now

\* the comparison of line 138 written with >=
out_of_date_or_equal(res, fd, frc, now) ==
    IF fd.none THEN FALSE
    ELSE (fd.date >= resource_modified(res, now)) \/ frc

\* lines 128-141, given the answer of get_import_file_date
out_of_date(res, fd, frc, now) ==
    IF fd.none THEN FALSE
    ELSE (fd.date > resource_modified(res, now)) \/ frc

\* ------------------------------------------------------------------- Init
\* What a source may answer to HEAD.  The header date is GMT made naive while
\* datetime.now() is local time, and the file server has its own clock: a
\* header date may lie on either side of the job's clock.
HeadAnswers ==
    {[status |-> 404, last_modified |-> NoStamp], [status |-> 200, last_modified |-> NoStamp]}
    \cup {[status |-> 200, last_modified |-> HttpDate(t)] : t \in Times}

Urls == {<<"ds1", "csv", "csv">>, <<"ds1", "shp", "shp">>, <<"ds2", "csv", "csv">>}

MkResource(ds, i, fmt, lm, cr) ==
    [id |-> i, package_id |-> ds, name |-> <<ds, Lower(fmt)>>, format |-> fmt,
     url |-> "http://stored", last_modified |-> lm, created |-> cr]

\* The timestamps a stored resource may carry: none at all, created only,
\* or both (last_modified later than created).
StoredStamps == {<<NoStamp, NoStamp>>, <<NoStamp, IsoFormat(0)>>, <<IsoFormat(1), IsoFormat(0)>>}

\* Resource lists of a package: an optional shapefile resource followed by an
\* optional CSV resource (CKAN shows the format of the latter in upper case).
\* The second dataset is mapped to csv only and holds at most that resource.
PackageLists(ds) ==
    LET shps == IF ds = "ds1"
                THEN {<<>>, <<MkResource(ds, 1, "shp", IsoFormat(1), IsoFormat(0))>>}
                ELSE {<<>>}
        stamps == IF ds = "ds1" THEN StoredStamps ELSE {<<IsoFormat(1), IsoFormat(0)>>}
        csvs(i) == {<<>>} \cup {<<MkResource(ds, i, "CSV", s[1], s[2])>> : s \in stamps}
    IN  UNION {{a \o b : b \in csvs(Len(a) + 1)} : a \in shps}

Packages(ds) ==
    {[found |-> FALSE, resources |-> <<>>]}
    \cup {[found |-> TRUE, resources |-> l] : l \in PackageLists(ds)}

Entries1 == {<<>>, <<"shp", "csv">>, <<"KML", "csv">>}

NoRun ==
    [valid |-> FALSE, single_dataset |-> None, force |-> FALSE, debug |-> FALSE,
     rejected |-> FALSE, published |-> {}, unchanged |-> TRUE]

InitEnv ==
    /\ mapping \in {[d \in Datasets |-> IF d = "ds1" THEN e ELSE <<"csv">>] : e \in Entries1}
    /\ ckanPkg \in [Datasets -> UNION {Packages(d) : d \in Datasets}]
    /\ \A d \in Datasets : ckanPkg[d] \in Packages(d)
    /\ srcHead \in [Urls -> HeadAnswers]

InitJob ==
    /\ staged = [d \in Datasets |-> {}]
    /\ clock = StartTime
    /\ single_dataset = None
    /\ force = FALSE
    /\ debug = FALSE
    /\ pc = "idle"
    /\ todo = <<>>
    /\ fmts = <<>>
    /\ package = NoPackage
    /\ resource = NoResource
    /\ stale = [checked |-> FALSE]
    /\ calls = <<>>
    /\ log = <<>>
    /\ prev = NoRun
    /\ modified = FALSE

\* one invocation of the script
Init ==
    /\ InitEnv
    /\ InitJob
    /\ run = "none"
    /\ repeat = FALSE

\* ---------------------------------------------------------------- helpers
Call(op, ds, fmt, part, ok, stamp, files) ==
    [op |-> op, ds |-> ds, fmt |-> fmt, part |-> part, ok |-> ok,
     stamp |-> stamp, files |-> files]

LogLine(level, msg, arg) == [level |-> level, msg |-> msg, arg |-> arg]

RunOver == pc \in {"done", "crashed"}
\* the first invocation is over and a second one is still to come
Between == run = "first" /\ repeat /\ RunOver

envVars == <<mapping, srcHead>>
argVars == <<single_dataset, force, debug, run, repeat, prev, modified>>

\* a driver that stops at the first dataset that returns
StopAfterDataset ==
    /\ fmts' = <<>>
    /\ todo' = <<>>
    /\ pc' = "done"

\* main_job returns (line 159, or the for loop of line 162 is exhausted):
\* the top-level driver goes on with the next dataset, if any (lines 184-189).
AdvanceDataset ==
    /\ fmts' = <<>>
    /\ todo' = Tail(todo)
    /\ pc' = IF Len(todo) > 1 THEN "show" ELSE "done"

\* the end of one iteration of the for loop of line 162
AdvanceFormat ==
    IF Len(fmts) > 1
    THEN /\ fmts' = Tail(fmts)
         /\ pc' = "ensure"
         /\ UNCHANGED todo
    ELSE AdvanceDataset

\* an exception nobody catches: the interpreter exits
Crash ==
    /\ pc' = "crashed"
    /\ UNCHANGED <<todo, fmts>>

\* ------------------------------------------------ top-level driver (184-189)
\* The datasets the driver runs: [ok |-> FALSE] is the KeyError of
\* mapping[single_dataset] for a dataset the mapping does not hold.
driver(sd, m) ==
    IF sd # None /\ sd \notin DOMAIN m THEN [ok |-> FALSE, todo |-> <<>>]
    ELSE IF sd # None /\ m[sd] # <<>> THEN [ok |-> TRUE, todo |-> <<sd>>]
    ELSE [ok |-> TRUE, todo |-> DatasetOrder]

\* One invocation of the script: docopt, yaml.load, and the driver's choice.
StartRun(sd, frc, dbg) ==
    /\ (run = "none" /\ pc = "idle") \/ Between
    /\ run' = IF run = "none" THEN "first" ELSE "second"
    /\ UNCHANGED repeat
    /\ prev' = IF pc = "idle" THEN prev
               ELSE [valid |-> TRUE, single_dataset |-> single_dataset, force |-> force,
                     debug |-> debug,
                     rejected |-> \E i \in 1..Len(calls) :
                                     calls[i].op = "resource_update" /\ ~calls[i].ok,
                     published |-> {<<calls[i].ds, calls[i].fmt, calls[i].stamp>> :
                                     i \in {j \in 1..Len(calls) :
                                        calls[j].op = "resource_update" /\ calls[j].ok}},
                     unchanged |-> ~modified]
    /\ modified' = FALSE
    /\ single_dataset' = sd
    /\ force' = frc
    /\ debug' = dbg
    /\ calls' = <<>>
    /\ log' = <<>>
    /\ package' = NoPackage
    /\ resource' = NoResource
    /\ stale' = [checked |-> FALSE]
    /\ fmts' = <<>>
    /\ LET dr == driver(sd, mapping) IN
         /\ todo' = dr.todo
         /\ pc' = IF ~dr.ok THEN "crashed"
                  ELSE IF dr.todo = <<>> THEN "done" ELSE "show"
    /\ UNCHANGED <<envVars, ckanPkg, staged, clock>>

\* ------------------------------------------------ main_job, lines 155-161
PackageShow ==
    /\ pc = "show"
    /\ LET ds == Head(todo) IN
         /\ calls' = Append(calls, Call("package_show", ds, None, None, ckanPkg[ds].found, 0, {}))
         /\ IF ~ckanPkg[ds].found
            THEN /\ log' = Append(log, LogLine("error", "dataset not found", ds))
                 /\ AdvanceDataset
                 /\ UNCHANGED package
            ELSE /\ package' = [id |-> ds, name |-> ds, resources |-> ckanPkg[ds].resources]
                 /\ UNCHANGED log
                 /\ IF mapping[ds] = <<>>
                    THEN AdvanceDataset
                    ELSE /\ fmts' = mapping[ds]
                         /\ pc' = "ensure"
                         /\ UNCHANGED todo
    /\ UNCHANGED <<envVars, argVars, ckanPkg, staged, clock, resource, stale>>

\* ------------------------------------------------ main_job, lines 161-175
existing_formats(pkg) == {Lower(pkg.resources[i].format) : i \in 1..Len(pkg.resources)}

\* [res for res in package['resources'] if res['format'].lower() == f][0]
select_resource(pkg, f) ==
    LET idx == {i \in 1..Len(pkg.resources) : Lower(pkg.resources[i].format) = f}
        first == CHOOSE i \in idx : \A j \in idx : i <= j
    IN  pkg.resources[first]

\* the record resource_create stores and returns
created_resource(pkg, f, n, now) ==
    [id |-> n, package_id |-> pkg.id, name |-> <<pkg.name, f>>, format |-> f,
     url |-> "http://example.com", last_modified |-> IsoFormat(now),
     created |-> IsoFormat(now)]

needs_create(pkg, f) == f \notin existing_formats(pkg)

EnsureResource ==
    /\ pc = "ensure"
    /\ LET ds == Head(todo)
           f == Head(fmts)
       IN IF needs_create(package, f)
          THEN LET r == created_resource(package, f, Len(ckanPkg[ds].resources) + 1, clock) IN
               /\ resource' = r
               /\ ckanPkg' = [ckanPkg EXCEPT ![ds].resources = Append(@, r)]
               /\ calls' = Append(calls, Call("resource_create", ds, f, None, TRUE, clock, {}))
          ELSE /\ resource' = select_resource(package, f)
               /\ UNCHANGED <<ckanPkg, calls>>
    /\ pc' = "check"
    /\ UNCHANGED <<envVars, argVars, staged, clock, todo, fmts, package, stale, log>>

\* ------------------------------------------------ main_job, lines 177-178
CheckStale ==
    /\ pc = "check"
    /\ LET ds == Head(todo)
           f == Head(fmts)
           loc == get_import_url(resource, ds, mapping[ds])
       IN IF ~loc.ok
          THEN /\ Crash
               /\ stale' = [checked |-> FALSE]
               /\ UNCHANGED <<calls, log>>
          ELSE LET fd == get_import_file_date(srcHead[loc.url], loc.url)
                   res == out_of_date(resource, fd, force, clock)
               IN /\ calls' = Append(calls, Call("head", ds, f, None, ~fd.raised, 0, {}))
                  /\ log' = log \o fd.log
                  /\ IF fd.raised
                     THEN /\ Crash
                          /\ stale' = [checked |-> FALSE]
                     ELSE /\ stale' = [checked |-> TRUE, ds |-> ds, fmt |-> f,
                                       resource |-> resource, head |-> srcHead[loc.url],
                                       force |-> force, now |-> clock, result |-> res]
                          /\ IF res
                             THEN /\ pc' = "import"
                                  /\ UNCHANGED <<todo, fmts>>
                             ELSE AdvanceFormat
    /\ UNCHANGED <<envVars, argVars, ckanPkg, staged, clock, package, resource>>

\* ------------------------------------------------ upload_file_to_resource
\* the file name of the upload (lines 67-69)
upload_filename(res) ==
    IF Lower(res.format) = "shp" THEN <<res.name, res.format, "zip">>
    ELSE <<res.name, res.format>>

\* the record sent without a new last_modified
unstamped(res, now) == res

\* the record sent to resource_update (lines 70-71)
stamped(res, now) == [res EXCEPT !.last_modified = IsoFormat(now)]

\* ------------------------------------------------ import_shapefile
\* the files in the staging directory after the downloads of lines 83-87:
\* download_temp_file writes a file only for a 200 answer, and its result is
\* not looked at; files of earlier runs are still there.
staged_after(old, status) ==
    old \cup {ShpParts[i] : i \in {j \in 1..Len(ShpParts) : status[ShpParts[j]] = 200}}

\* the archive of lines 89-94: every file of the staging directory
archive(dir) == dir

\* ------------------------------------------------ perform_import
\* lines 143-152 with import_shapefile (78-97) and upload_file_to_resource
\* (66-76): the GETs, the staging, the stamped record sent to resource_update;
\* a rejected update (CKANAPIError) is logged and nothing else happens.
perform_import(status, accepted) ==
    LET ds == Head(todo)
        f == Head(fmts)
        shp == Lower(resource.format) = "shp"
        dir == IF shp THEN staged_after(staged[ds], status) ELSE staged[ds]
        gets == IF shp
                THEN [i \in 1..Len(ShpParts) |->
                        Call("get", ds, f, ShpParts[i], status[ShpParts[i]] = 200, 0, {})]
                ELSE <<Call("get", ds, f, f, TRUE, 0, {})>>
        files == IF shp THEN archive(dir) ELSE {f}
        sent == stamped(resource, clock)
    IN /\ staged' = [staged EXCEPT ![ds] = dir]
       /\ resource' = sent
       /\ calls' = (calls \o gets) \o
             <<[Call("resource_update", ds, f, None, accepted, clock, files)
                  EXCEPT !.part = upload_filename(resource)]>>
       /\ log' = Append(log, LogLine("info", "updating resource", resource.name))
                 \o (IF accepted THEN <<>>
                     ELSE <<LogLine("error", "CKANAPIError", resource.name)>>)
       /\ ckanPkg' = IF accepted
                     THEN [ckanPkg EXCEPT ![ds].resources[resource.id] = sent]
                     ELSE ckanPkg

\* a dry run that fetches the file before it looks at the flag
would_refresh_fetching ==
    /\ log' = Append(log, LogLine("info", "Would refresh", resource.url))
    /\ calls' = Append(calls, Call("get", Head(todo), Head(fmts), Head(fmts), TRUE, 0, {}))
    /\ UNCHANGED <<ckanPkg, staged, resource>>

\* lines 179-180: the dry run logs what it would do
would_refresh ==
    /\ log' = Append(log, LogLine("info", "Would refresh", resource.url))
    /\ UNCHANGED <<calls, ckanPkg, staged, resource>>

\* ------------------------------------------------ main_job, lines 179-182
Import(status, accepted) ==
    /\ pc = "import"
    /\ IF debug THEN would_refresh ELSE perform_import(status, accepted)
    /\ AdvanceFormat
    /\ UNCHANGED <<envVars, argVars, clock, package, stale>>

\* ------------------------------------------------------------ environment
\* time passes
Tick ==
    /\ Between
    /\ clock < MaxTime
    /\ clock' = clock + 1
    /\ UNCHANGED <<mapping, ckanPkg, srcHead, staged, single_dataset, force, debug,
                   pc, todo, fmts, package, resource, stale, calls, log, run, repeat, prev,
                   modified>>

\* one source file is written again between two runs: its timestamp moves on
SourceModified(u, t) ==
    /\ Between
    /\ ~modified
    /\ HasDate(srcHead[u])
    /\ t > ParseNaive(srcHead[u].last_modified)
    /\ srcHead' = [srcHead EXCEPT ![u].last_modified = HttpDate(t)]
    /\ modified' = TRUE
    /\ UNCHANGED <<mapping, ckanPkg, staged, clock, single_dataset, force, debug,
                   pc, todo, fmts, package, resource, stale, calls, log, run, repeat, prev>>

PartStatus == [SeqToSet(ShpParts) -> {200, 404}]

Next ==
    \/ \E sd \in Datasets \cup {None, UnmappedDataset}, frc \in BOOLEAN, dbg \in BOOLEAN :
          StartRun(sd, frc, dbg)
    \/ PackageShow
    \/ EnsureResource
    \/ CheckStale
    \/ \E st \in PartStatus, acc \in BOOLEAN : Import(st, acc)

\* repeated invocations: between two of them time passes and sources change
NextRepeat ==
    \/ \E sd \in {None, "ds2"}, frc \in BOOLEAN, dbg \in BOOLEAN : StartRun(sd, frc, dbg)
    \/ PackageShow
    \/ EnsureResource
    \/ CheckStale
    \/ \E st \in PartStatus, acc \in BOOLEAN : Import(st, acc)
    \/ Tick
    \/ \E u \in Urls, t \in Times : SourceModified(u, t)


Spec == Init /\ [][Next]_vars

\* The script invoked twice in a row on one repository.
InitRepeat ==
    /\ mapping = [d \in Datasets |-> IF d = "ds1" THEN <<"shp", "csv">> ELSE <<"csv">>]
    /\ ckanPkg \in {[d \in Datasets |-> [found |-> TRUE, resources |-> IF d = "ds1" THEN l ELSE <<>>]] :
            l \in {<<>>, <<MkResource("ds1", 1, "shp", IsoFormat(0), IsoFormat(0)),
                           MkResource("ds1", 2, "CSV", IsoFormat(0), IsoFormat(0))>>}}
    /\ srcHead \in [Urls -> {[status |-> 200, last_modified |-> HttpDate(t)] : t \in {0, StartTime}}]
    /\ InitJob
    /\ run = "none"
    /\ repeat = TRUE

SpecRepeat == InitRepeat /\ [][NextRepeat]_vars

\* ================================================================ claims
CallSet == {calls[i] : i \in 1..Len(calls)}
LogSet == {log[i] : i \in 1..Len(log)}
CallsIn(cs, ops, ds, f) == {i \in 1..Len(cs) : cs[i].op \in ops /\ cs[i].ds = ds /\ cs[i].fmt = f}
CallsAt(ops, ds, f) == CallsIn(calls, ops, ds, f)
FetchOps == {"get", "resource_update"}

\* ---------------------------------------------------------------- C1
\* C1: whenever the probe yields a remote timestamp, the staleness check
\* answers exactly (remote > reference) or force, the reference being the
\* stored last_modified if present, else the stored created, else now.
C1_Staleness ==
    (stale.checked /\ HasDate(stale.head)) =>
        LET remote == stale.head.last_modified.iso
            r == stale.resource
            reference == IF r.last_modified.tz # "None" THEN r.last_modified.iso
                         ELSE IF r.created.tz # "None" THEN r.created.iso
                         ELSE stale.now
        IN  stale.result = ((remote > reference) \/ stale.force)

\* force is set, the remote file is older than the resource, the answer is true
C1_Witness ==
    /\ stale.checked
    /\ HasDate(stale.head)
    /\ stale.force
    /\ stale.resource.last_modified.tz # "None"
    /\ stale.head.last_modified.iso < stale.resource.last_modified.iso
    /\ stale.result

\* ---------------------------------------------------------------- C2
\* C2: in dry-run mode no GET and no resource_update is ever made, nothing is
\* staged and the repository is not updated; the step taken for a stale
\* resource only appends the "Would refresh" line to the log.
C2_DryRun ==
    [][ /\ debug' => \A i \in 1..Len(calls') : calls'[i].op \notin FetchOps
        /\ (debug /\ pc = "import") =>
              /\ log' = Append(log, LogLine("info", "Would refresh", resource.url))
              /\ calls' = calls
              /\ ckanPkg' = ckanPkg
              /\ staged' = staged ]_vars

\* a dry run with force found a resource stale and logged the intended action
C2_Witness ==
    /\ debug
    /\ force
    /\ pc = "done"
    /\ \E l \in LogSet : l.msg = "Would refresh"
    /\ \E c \in CallSet : c.op = "head"

\* ---------------------------------------------------------------- C3
\* C3: a 404 answer to the probe makes the staleness check answer false, with
\* or without force and whatever the stored timestamps; the warning is
\* logged, nothing is raised, and that resource is neither fetched nor updated.
C3_SourceMissing ==
    [][ (pc = "check" /\ get_import_url(resource, Head(todo), mapping[Head(todo)]).ok
         /\ srcHead[get_import_url(resource, Head(todo), mapping[Head(todo)]).url].status = 404)
        => /\ stale'.checked
           /\ stale'.result = FALSE
           /\ pc' \notin {"crashed", "import"}
           /\ log' = Append(log, LogLine("warning", "Resource is missing",
                        get_import_url(resource, Head(todo), mapping[Head(todo)]).url))
           /\ CallsIn(calls', FetchOps, Head(todo), Head(fmts)) = {} ]_vars

\* the probe of a resource answered 404 while force was set, and the run ended
C3_Witness ==
    /\ stale.checked
    /\ stale.head.status = 404
    /\ stale.force
    /\ stale.resource.last_modified # NoStamp
    /\ \E l \in LogSet : l.level = "warning"
    /\ pc = "done"

\* ---------------------------------------------------------------- C4
\* C4: a probe answer without last-modified header (not a 404) is logged as an
\* error and the staleness check gives its caller a definite "do not sync".
C4_TimestampUnknown ==
    [][ (pc = "check" /\ get_import_url(resource, Head(todo), mapping[Head(todo)]).ok
         /\ LET h == srcHead[get_import_url(resource, Head(todo), mapping[Head(todo)]).url]
            IN  h.status # 404 /\ h.last_modified = NoStamp)
        => /\ \E l \in LogSet' : l.level = "error"
           /\ pc' # "crashed"
           /\ stale'.checked
           /\ stale'.result = FALSE ]_vars

\* ---------------------------------------------------------------- C5
\* the datasets a run is to process
Scope ==
    IF single_dataset = None THEN Datasets
    ELSE IF single_dataset \in Datasets /\ mapping[single_dataset] # <<>> THEN {single_dataset}
    ELSE IF single_dataset \in Datasets THEN Datasets
    ELSE {}

\* C5: when the run is over, every dataset it was to process has been shown
\* and every mapped format of every dataset found has reached its staleness
\* check (its probe), whatever failed before it.
C5_Isolation ==
    RunOver =>
        \A d \in Scope :
            /\ \E c \in CallSet : c.op = "package_show" /\ c.ds = d
            /\ ckanPkg[d].found =>
                 \A i \in 1..Len(mapping[d]) :
                    Lower(mapping[d][i]) \in SeqToSet(mapping[d])
                        => CallsAt({"head"}, d, mapping[d][i]) # {}

\* ---------------------------------------------------------------- C6
\* the format being processed had no resource in the package as it was shown
Placeholder ==
    /\ pc \in {"check", "import"}
    /\ \A i \in 1..Len(package.resources) : Lower(package.resources[i].format) # Head(fmts)

PlaceholderMade ==
    /\ Cardinality(CallsAt({"resource_create"}, Head(todo), Head(fmts))) = 1
    /\ resource.name = <<package.name, Head(fmts)>>
    /\ resource.format = Head(fmts)
    /\ resource.url = "http://example.com"
    /\ \E i \in 1..Len(ckanPkg[Head(todo)].resources) :
          ckanPkg[Head(todo)].resources[i] = resource

CreatedThisRun(d, f) == CallsAt({"resource_create"}, d, f) # {}

NotFoundShown == {c.ds : c \in {x \in CallSet : x.op = "package_show" /\ ~x.ok}}

\* C7: package_show answering not-found logs "dataset not found: <id>", and
\* the driver goes on with the next dataset; nothing is created, probed,
\* fetched or updated for the dataset that was not found.
C7_DatasetNotFound ==
    [][ /\ (pc = "show" /\ ~ckanPkg[Head(todo)].found) =>
              /\ log' = Append(log, LogLine("error", "dataset not found", Head(todo)))
              /\ pc' # "crashed"
              /\ Len(todo) > 1 => (pc' = "show" /\ todo' = Tail(todo))
              /\ Len(todo) = 1 => pc' = "done"
        /\ \A i \in 1..Len(calls') :
              calls'[i].op # "package_show" => calls'[i].ds \notin NotFoundShown' ]_vars

\* the first dataset was not found and the second one was then shown
C7_Witness ==
    /\ \E l \in LogSet : l.msg = "dataset not found" /\ l.arg = "ds1"
    /\ \E c \in CallSet : c.op = "package_show" /\ c.ds = "ds2" /\ c.ok
    /\ \E c \in CallSet : c.op = "head" /\ c.ds = "ds2"

\* ---------------------------------------------------------------- C8
\* C8: when a single dataset was requested, every remote call of the run is
\* about that dataset; without one, every dataset is shown exactly once.
C8_SingleDataset ==
    /\ single_dataset # None => \A c \in CallSet : c.ds = single_dataset
    /\ (single_dataset = None /\ pc = "done") =>
          \A d \in Datasets : Cardinality(CallsAt({"package_show"}, d, None)) = 1

\* ---------------------------------------------------------------- C9
\* C9: a shapefile resource is updated only when every sub-file fetched for it
\* in this run was answered 200.
C9_BundleFailure ==
    \A c \in CallSet :
        (c.op = "resource_update" /\ Lower(c.fmt) = "shp") =>
            \A g \in CallSet : (g.op = "get" /\ g.ds = c.ds /\ g.fmt = c.fmt) => g.ok

\* ---------------------------------------------------------------- C10
LowerCaseMapping ==
    \A d \in Datasets : \A i \in 1..Len(mapping[d]) : Lower(mapping[d][i]) = mapping[d][i]

\* no source answers a date later than the time its resource was published at
PublishedNotOlder ==
    \A p \in prev.published :
        LET h == srcHead[<<p[1], Lower(p[2]), Lower(p[2])>>]
        IN  HasDate(h) => ParseNaive(h.last_modified) <= p[3]

\* the second run follows a real run (no dry run, no force) whose updates were
\* all accepted, the sources are as they were, and force is not set
SecondRunOfSame ==
    /\ run = "second"
    /\ prev.valid
    /\ ~prev.force
    /\ ~prev.debug
    /\ ~prev.rejected
    /\ prev.unchanged
    /\ ~force
    /\ LowerCaseMapping
    /\ PublishedNotOlder

Quiet == \A c \in CallSet : c.op \notin {"resource_create", "get", "resource_update"}

\* C10 as claimed: such a second run creates, fetches and updates nothing.
C10_SecondRunQuiet == SecondRunOfSame => Quiet

\* C10 as amended: such a second run, asked for the same dataset selection as
\* the first, creates, fetches and updates nothing; and without force a
\* resource published by the first run is fetched again only when its source
\* answers a date later than the publish time.
C10_Convergence ==
    /\ (SecondRunOfSame /\ single_dataset = prev.single_dataset) => Quiet
    /\ (run = "second" /\ ~force) =>
          \A c \in CallSet : \A p \in prev.published :
              (c.op \in FetchOps /\ c.ds = p[1] /\ c.fmt = p[2]) =>
                 LET h == srcHead[<<p[1], Lower(p[2]), Lower(p[2])>>]
                 IN  HasDate(h) /\ ParseNaive(h.last_modified) > p[3]

\* a second run over every dataset, after a first one that published, is over
\* and has probed its sources without creating, fetching or updating
C10_Witness ==
    /\ SecondRunOfSame
    /\ single_dataset = None
    /\ prev.single_dataset = None
    /\ prev.published # {}
    /\ ~debug
    /\ pc = "done"
    /\ Cardinality({i \in 1..Len(calls) : calls[i].op = "head"}) = 3
    /\ Quiet
====
